---- MODULE Spec2Model ----
(***************************************************************************)
(* Model of the MUSICAv0 workflow helpers:                                 *)
(*   emissions/NEIfileDatetime_shift_BYweekofday.py                        *)
(*       NEIfileDatetime_shift_BYweekofday   (forward weekday shift)       *)
(*       NEIfileDatetime_shift_BACKWARDto2017 (inverse shift)              *)
(*   utilities/find_missing_files.py                                       *)
(*       find_missing_files_v1 / find_missing_files_v2                     *)
(*   emissions/ne30CONUSne30x8_scale_emissions_by_Canadaregion_c20260212.py*)
(*       scale_bb_emissions_by_mask and the module-level statements        *)
(* Strings are sequences of one-character strings; datetimes are records   *)
(* [year, month, day, hour, minute, second] of the proleptic Gregorian     *)
(* calendar, computed as Python's datetime module computes them.           *)
(***************************************************************************)
EXTENDS Integers, Sequences, FiniteSets, TLC

VARIABLES
    pc,                    \* position of the shift script's caller
    inpNEIfile,            \* argument of NEIfileDatetime_shift_BYweekofday
    outyear,               \* argument: target year
    outpNEIfile,           \* value returned by the forward shift
    outpNEIfile_datetime,  \* argument of NEIfileDatetime_shift_BACKWARDto2017
    inpNEIfile_datetime,   \* value returned by the inverse shift
    raised,                \* exception that ended the last call, or "none"
    stdout,                \* lines printed so far
    fpc,                   \* position of the find_missing_files caller
    version,               \* 1: find_missing_files_v1, 2: find_missing_files_v2
    startDatetime,         \* argument of find_missing_files_v*
    endDatetime,           \* argument of find_missing_files_v*
    disk,                  \* set of paths that exist (and can be opened)
    result,                \* the dictionary returned by find_missing_files_v*
    inpNEIfile2,           \* a second, later filename given to the forward shift
    outpNEIfile2,          \* value the forward shift returned for it
    mpc,                   \* the scaling script: next module-level statement
    namespace,             \* the scaling script: module-level names assigned
    varname,               \* user setting (line 53)
    regionMask,            \* user setting (line 55); argument of the scaling
    scalefactor,           \* user setting (line 56), in hundredths; argument
    BBEmissions_diri,      \* user setting (line 59)
    cpc,                   \* position of the caller of scale_bb_emissions_by_mask
    spc,                   \* argument of scale_bb_emissions_by_mask
    in_diri,               \* argument
    out_diri,              \* argument
    mask_da,               \* argument
    coord_like_vars,       \* argument
    fs                     \* file system: directories and netCDF files

shiftVars == <<pc, inpNEIfile, outyear, outpNEIfile, outpNEIfile_datetime,
               inpNEIfile_datetime>>
fileVars == <<fpc, version, startDatetime, endDatetime, disk, result>>
pairVars == <<inpNEIfile2, outpNEIfile2>>
scriptVars == <<mpc, namespace, varname, BBEmissions_diri>>
scaleVars == <<regionMask, scalefactor, cpc, spc, in_diri, out_diri, mask_da,
               coord_like_vars, fs>>
vars == <<pc, inpNEIfile, outyear, outpNEIfile, outpNEIfile_datetime,
          inpNEIfile_datetime, raised, stdout,
          fpc, version, startDatetime, endDatetime, disk, result,
          inpNEIfile2, outpNEIfile2, mpc, namespace, varname, regionMask,
          scalefactor, BBEmissions_diri, cpc, spc, in_diri, out_diri, mask_da,
          coord_like_vars, fs>>

(***************************************************************************)
(* Bounds of the model.                                                    *)
(***************************************************************************)
\* source timestamps lie in the years RefYear-SrcSpan .. RefYear+SrcSpan
SrcSpan == 1
\* target years are RefYear-OutSpan .. RefYear+OutSpan
OutSpan == 4
\* number of hours in the window find_missing_files is called on
NumHours == 4

\* target years of a pair of files: RefYear - PairSpan .. RefYear + PairSpan
PairSpan == 11

\* sizes of the dimensions time and ncol of the emission files
NTime == 2
NCol == 2

(***************************************************************************)
(* Characters and strings.                                                 *)
(***************************************************************************)
Digits == <<"0", "1", "2", "3", "4", "5", "6", "7", "8", "9">>

\* int() of a digit character
DigitOf == [c \in {Digits[i] : i \in 1..10} |-> (CHOOSE i \in 1..10 : Digits[i] = c) - 1]

IsDigit(c) == c \in DOMAIN DigitOf

DigitVal(c) == DigitOf[c]

\* Python slice s[n:]
SliceFrom(s, n) == IF n >= Len(s) THEN <<>> ELSE SubSeq(s, n + 1, Len(s))

\* Python slice s[:n]
SliceTo(s, n) == IF n >= Len(s) THEN s ELSE SubSeq(s, 1, n)

\* zero-padded decimal of width 2 and 4, as %m %d %H %M %S and %Y print
Pad2(n) == <<Digits[((n \div 10) % 10) + 1], Digits[(n % 10) + 1]>>

Pad4(n) == <<Digits[((n \div 1000) % 10) + 1], Digits[((n \div 100) % 10) + 1],
             Digits[((n \div 10) % 10) + 1], Digits[(n % 10) + 1]>>

(***************************************************************************)
(* The calendar of datetime.datetime.                                      *)
(***************************************************************************)
MINYEAR == 1
MAXYEAR == 9999

IsLeap(y) == y % 4 = 0 /\ (y % 100 # 0 \/ y % 400 = 0)

DaysInMonth(y, m) ==
    IF m = 2 THEN (IF IsLeap(y) THEN 29 ELSE 28)
    ELSE IF m \in {4, 6, 9, 11} THEN 30 ELSE 31

DaysBeforeYear(y) ==
    (y - 1) * 365 + ((y - 1) \div 4) - ((y - 1) \div 100) + ((y - 1) \div 400)

\* days before the first of each month in a year that is not a leap year
DAYS_BEFORE_MONTH == <<0, 31, 59, 90, 120, 151, 181, 212, 243, 273, 304, 334>>

\* _days_before_month: the table, plus the leap day after February
DaysBeforeMonth(y, m) ==
    DAYS_BEFORE_MONTH[m] + (IF m > 2 /\ IsLeap(y) THEN 1 ELSE 0)

\* datetime.toordinal(): 1 for 0001-01-01
ToOrdinal(dt) == DaysBeforeYear(dt.year) + DaysBeforeMonth(dt.year, dt.month) + dt.day

\* v bound to its value in F: With(e, LAMBDA x : body)
With(v, F(_)) == CHOOSE r \in {F(x) : x \in {v}} : TRUE

\* the month and day of the k-th day (k = 0 for January 1) of year y
MonthDayOf(y, k) ==
    LET est == (k + 50) \div 32
        m == IF DaysBeforeMonth(y, est) > k THEN est - 1 ELSE est
    IN  [year |-> y, month |-> m, day |-> k - DaysBeforeMonth(y, m) + 1]

\* date.fromordinal(n): 400-, 100-, 4- and 1-year cycles, as _ord2ymd
FromOrdinal(ord) ==
    LET r400 == (ord - 1) % 146097
        r100 == r400 % 36524
        r4 == r100 % 1461
        n400 == (ord - 1) \div 146097
        n100 == r400 \div 36524
        n4 == r100 \div 1461
        n1 == r4 \div 365
        year == n400 * 400 + 1 + n100 * 100 + n4 * 4 + n1
    IN  IF n1 = 4 \/ n100 = 4
        THEN [year |-> year - 1, month |-> 12, day |-> 31]
        ELSE MonthDayOf(year, r4 % 365)

\* datetime.weekday(): Monday = 0 .. Sunday = 6
Weekday(dt) == (ToOrdinal(dt) + 6) % 7

WeekdayNames == <<"Monday", "Tuesday", "Wednesday", "Thursday", "Friday",
                  "Saturday", "Sunday">>

\* strftime('%A')
StrftimeA(dt) == WeekdayNames[Weekday(dt) + 1]

SecondOfDay(dt) == dt.hour * 3600 + dt.minute * 60 + dt.second

IsDatetime(dt) ==
    /\ dt.year \in MINYEAR..MAXYEAR
    /\ dt.month \in 1..12
    /\ dt.day \in 1..DaysInMonth(dt.year, dt.month)
    /\ dt.hour \in 0..23
    /\ dt.minute \in 0..59
    /\ dt.second \in 0..59

(***************************************************************************)
(* datetime.strptime and datetime.strftime for the two formats used:       *)
(*   '%Y-%m-%d_%H:%M:%S' (sep = "_") and '%Y-%m-%dT%H:%M:%S' (sep = "T").  *)
(* strptime matches the regular expression the format compiles to:         *)
(*   %Y \d\d\d\d          %m 1[0-2]|0[1-9]|[1-9]                           *)
(*   %d 3[01]|[12]\d|0[1-9]|[1-9]| [1-9]                                   *)
(*   %H 2[0-3]|[0-1]\d|\d %M [0-5]\d|\d   %S 6[01]|[0-5]\d|\d              *)
(* the whole string must be consumed, and the fields must make a datetime. *)
(***************************************************************************)
\* the characters p..p+w-1 of s exist and are digits
DigitsAt(s, p, w) == p + w - 1 <= Len(s) /\ \A i \in p..(p + w - 1) : IsDigit(s[i])

\* the number written by the w digits at p
NumberAt(s, p, w) ==
    IF w = 1 THEN DigitVal(s[p])
    ELSE IF w = 2 THEN DigitVal(s[p]) * 10 + DigitVal(s[p + 1])
    ELSE DigitVal(s[p]) * 1000 + DigitVal(s[p + 1]) * 100
         + DigitVal(s[p + 2]) * 10 + DigitVal(s[p + 3])

\* a parser of fixed-width fields: every field is two characters wide
FieldWidthTwo(s, p) == 2

\* width of the one- or two-character field that starts at p: the field is
\* followed by a literal that is no digit, so a second digit belongs to it
FieldWidth(s, p) ==
    IF p + 1 <= Len(s) /\ (IsDigit(s[p + 1]) \/ s[p] = " ") THEN 2 ELSE 1

\* a field of width w at p matches its alternatives: two digits with value
\* in lo2..hi2, or one digit with value at least lo1
MatchField(s, p, w, lo2, hi2, lo1) ==
    /\ DigitsAt(s, p, w)
    /\ IF w = 2 THEN NumberAt(s, p, 2) \in lo2..hi2 ELSE NumberAt(s, p, 1) >= lo1

\* %d also accepts a blank followed by 1..9
MatchDay(s, p, w) ==
    \/ MatchField(s, p, w, 1, 31, 1)
    \/ w = 2 /\ p + 1 <= Len(s) /\ s[p] = " " /\ IsDigit(s[p + 1]) /\ DigitVal(s[p + 1]) >= 1

DayAt(s, p, w) == IF s[p] = " " THEN DigitVal(s[p + 1]) ELSE NumberAt(s, p, w)

\* a literal character of the format at position p
MatchLit(s, p, c) == p <= Len(s) /\ s[p] = c

NoDatetime == [year |-> 0, month |-> 0, day |-> 0, hour |-> 0, minute |-> 0, second |-> 0]

\* positions of the six fields of s, each one past the literal that ends the
\* field before it
FieldStarts(s) ==
    LET pm == 6
        pd == pm + FieldWidth(s, pm) + 1
        pH == pd + FieldWidth(s, pd) + 1
        pM == pH + FieldWidth(s, pH) + 1
        pS == pM + FieldWidth(s, pM) + 1
    IN  <<1, pm, pd, pH, pM, pS, pS + FieldWidth(s, pS)>>

\* datetime.strptime(s, '%Y-%m-%d' + sep + '%H:%M:%S'):
\* [ok |-> TRUE, dt |-> the datetime] or ok = FALSE for ValueError
StrptimeAt(s, sep, at) ==
    LET w(i) == at[i + 1] - at[i] - 1
        matched ==
            /\ DigitsAt(s, 1, 4) /\ MatchLit(s, 5, "-")
            /\ MatchField(s, at[2], w(2), 1, 12, 1) /\ MatchLit(s, at[3] - 1, "-")
            /\ MatchDay(s, at[3], w(3)) /\ MatchLit(s, at[4] - 1, sep)
            /\ MatchField(s, at[4], w(4), 0, 23, 0) /\ MatchLit(s, at[5] - 1, ":")
            /\ MatchField(s, at[5], w(5), 0, 59, 0) /\ MatchLit(s, at[6] - 1, ":")
            /\ MatchField(s, at[6], at[7] - at[6], 0, 61, 0)
            /\ at[7] = Len(s) + 1
        dt == [year |-> NumberAt(s, 1, 4), month |-> NumberAt(s, at[2], w(2)),
               day |-> DayAt(s, at[3], w(3)), hour |-> NumberAt(s, at[4], w(4)),
               minute |-> NumberAt(s, at[5], w(5)),
               second |-> NumberAt(s, at[6], at[7] - at[6])]
    IN  IF matched /\ IsDatetime(dt) THEN [ok |-> TRUE, dt |-> dt]
        ELSE [ok |-> FALSE, dt |-> NoDatetime]

Strptime(s, sep) == With(FieldStarts(s), LAMBDA at : StrptimeAt(s, sep, at))

\* dt.strftime('%Y-%m-%d' + sep + '%H:%M:%S')
Strftime(dt, sep) ==
    Pad4(dt.year) \o <<"-">> \o Pad2(dt.month) \o <<"-">> \o Pad2(dt.day) \o <<sep>>
    \o Pad2(dt.hour) \o <<":">> \o Pad2(dt.minute) \o <<":">> \o Pad2(dt.second)

\* dt.strftime('_%Y-%m-%d' + sep + '%H:00:00'): minute and second are not printed
StrftimeHour(dt, sep) ==
    <<"_">> \o Pad4(dt.year) \o <<"-">> \o Pad2(dt.month) \o <<"-">> \o Pad2(dt.day)
    \o <<sep>> \o Pad2(dt.hour) \o <<":", "0", "0", ":", "0", "0">>

(***************************************************************************)
(* Date arithmetic: relativedelta(years=n), timedelta, datetime difference *)
(***************************************************************************)
\* the remainder that truncates toward zero (C's %, math.fmod): negative for
\* a negative dividend
TruncMod(a, m) == IF a >= 0 THEN a % m ELSE -((-a) % m)

\* Python's % with a positive divisor: the floored remainder, in 0..m-1
PyMod(a, m) == a % m

\* Python's // with a positive divisor: floored quotient
PyFloorDiv(a, m) == a \div m

\* a year shift that rolls a day past the end of the month into the next
\* month (February 29 becomes March 1)
AddYearsRollOver(dt, n) ==
    IF dt.day > DaysInMonth(dt.year + n, dt.month)
    THEN [dt EXCEPT !.year = dt.year + n, !.month = dt.month + 1, !.day = 1]
    ELSE [dt EXCEPT !.year = dt.year + n]

\* dt + relativedelta(years=n): the year moves, the day is clamped to the
\* length of the month in the new year (February 29 becomes February 28)
AddYears(dt, n) ==
    [dt EXCEPT !.year = dt.year + n,
               !.day = IF dt.day > DaysInMonth(dt.year + n, dt.month)
                       THEN DaysInMonth(dt.year + n, dt.month) ELSE dt.day]

\* dt + timedelta(days=n): the time of day is kept
AddDays(dt, n) ==
    LET date == FromOrdinal(ToOrdinal(dt) + n)
    IN  [dt EXCEPT !.year = date.year, !.month = date.month, !.day = date.day]

\* the day difference taken the wrong way round: (b - a).days
DeltaDaysReversed(a, b) ==
    ToOrdinal(b) - ToOrdinal(a) + ((SecondOfDay(b) - SecondOfDay(a)) \div 86400)

\* (a - b).days: the difference of the ordinals and of the seconds of the
\* day, normalised by timedelta so that 0 <= seconds < 86400
DeltaDays(a, b) ==
    ToOrdinal(a) - ToOrdinal(b) + PyFloorDiv(SecondOfDay(a) - SecondOfDay(b), 86400)

\* dt + timedelta(hours=1)
AddHour(dt) ==
    IF dt.hour < 23 THEN [dt EXCEPT !.hour = dt.hour + 1]
    ELSE [AddDays(dt, 1) EXCEPT !.hour = 0]

\* a <= b on datetimes
DatetimeLeq(a, b) ==
    \/ ToOrdinal(a) < ToOrdinal(b)
    \/ ToOrdinal(a) = ToOrdinal(b) /\ SecondOfDay(a) <= SecondOfDay(b)

(***************************************************************************)
(* emissions/NEIfileDatetime_shift_BYweekofday.py                          *)
(***************************************************************************)
\* the year the inverse shift maps back to
RefYear == 2017

\* the literal the forward shift puts in front of the adjusted timestamp
OutPrefix == <<"w", "r", "f", "c", "h", "e", "m", "i", "_", "d", "0", "1", "_">>

\* number of leading characters the forward shift skips: inpNEIfile[13:]
PrefixLen == 13

\* the line print(f"{a} matched with {b}") writes
MatchedLine(a, b) == <<a, " matched with ", b>>

\* the forward shift with the remaining days added instead of subtracted
ForwardAdjustedAdded(inp_date_time_obj, oy) ==
    LET nyears == oy - inp_date_time_obj.year
        outp_date_time_obj == AddYears(inp_date_time_obj, nyears)
        delta_days == DeltaDays(outp_date_time_obj, inp_date_time_obj)
        remaining_days == PyMod(delta_days, 7)
    IN  AddDays(outp_date_time_obj, remaining_days)

\* lines 42-58: the adjusted datetime of the forward shift
ForwardAdjusted(inp_date_time_obj, oy) ==
    LET nyears == oy - inp_date_time_obj.year
        outp_date_time_obj == AddYears(inp_date_time_obj, nyears)
        delta_days == DeltaDays(outp_date_time_obj, inp_date_time_obj)
        remaining_days == PyMod(delta_days, 7)
    IN  AddDays(outp_date_time_obj, -remaining_days)

\* NEIfileDatetime_shift_BYweekofday(inpNEIfile, outyear):
\* [raised, ret, printed]; ret is the returned filename when raised = "none"
NEIfileDatetime_shift_BYweekofday(inp, oy) ==
    With(Strptime(SliceFrom(inp, PrefixLen), "_"), LAMBDA parsed :
        IF ~parsed.ok
        THEN [raised |-> "ValueError", ret |-> <<>>, printed |-> <<>>]
        ELSE With(ForwardAdjusted(parsed.dt, oy), LAMBDA adjt_outp_date_time_obj :
                [raised |-> "none",
                 ret |-> OutPrefix \o Strftime(adjt_outp_date_time_obj, "_"),
                 printed |-> <<MatchedLine(StrftimeA(parsed.dt),
                                           StrftimeA(adjt_outp_date_time_obj))>>]))

\* the inverse shift with the remaining days subtracted instead of added
BackwardAdjustedSubtracted(outp_date_time_obj) ==
    LET nyears == outp_date_time_obj.year - RefYear
        inp_date_time_obj == AddYears(outp_date_time_obj, -nyears)
        delta_days == DeltaDays(outp_date_time_obj, inp_date_time_obj)
        remaining_days == PyMod(delta_days, 7)
    IN  AddDays(inp_date_time_obj, -remaining_days)

\* the inverse shift without the weekday adjustment: the same month and day
\* in the reference year
BackwardUnadjusted(outp_date_time_obj) ==
    AddYears(outp_date_time_obj, -(outp_date_time_obj.year - RefYear))

\* lines 96-112: the adjusted datetime of the inverse shift
BackwardAdjusted(outp_date_time_obj) ==
    LET nyears == outp_date_time_obj.year - RefYear
        inp_date_time_obj == AddYears(outp_date_time_obj, -nyears)
        delta_days == DeltaDays(outp_date_time_obj, inp_date_time_obj)
        remaining_days == PyMod(delta_days, 7)
    IN  AddDays(inp_date_time_obj, remaining_days)

\* NEIfileDatetime_shift_BACKWARDto2017(outpNEIfile_datetime, outyear):
\* outyear is not read; [raised, ret, printed]
NEIfileDatetime_shift_BACKWARDto2017(outp, oy) ==
    With(Strptime(outp, "_"), LAMBDA parsed :
        IF ~parsed.ok
        THEN [raised |-> "ValueError", ret |-> <<>>, printed |-> <<>>]
        ELSE With(BackwardAdjusted(parsed.dt), LAMBDA adjt_inp_date_time_obj :
                [raised |-> "none",
                 ret |-> Strftime(adjt_inp_date_time_obj, "_"),
                 printed |-> <<MatchedLine(StrftimeA(parsed.dt),
                                           StrftimeA(adjt_inp_date_time_obj))>>]))

(***************************************************************************)
(* utilities/find_missing_files.py                                         *)
(***************************************************************************)
\* the while loop that builds expected_files, from current_date on
RECURSIVE ExpectedFiles(_, _, _, _, _, _)
ExpectedFiles(current_date, end_date, filedir, file_prefix, sep, file_sufix) ==
    IF DatetimeLeq(current_date, end_date)
    THEN <<filedir \o file_prefix \o StrftimeHour(current_date, sep) \o file_sufix>>
         \o With(AddHour(current_date), LAMBDA next_date :
                ExpectedFiles(next_date, end_date, filedir, file_prefix, sep, file_sufix))
    ELSE <<>>

\* an open() that never fails, as a mode that creates the file would
OpenCreates(file_path, onDisk) == "ok"

\* open(file_path, 'r') of a path that is a readable file or is absent
Open(file_path, onDisk) ==
    IF file_path \in onDisk THEN "ok" ELSE "FileNotFoundError"

\* the for loop that fills missing_files: FileNotFoundError is caught and
\* the path appended
RECURSIVE MissingFiles(_, _)
MissingFiles(expected_files, onDisk) ==
    IF expected_files = <<>> THEN <<>>
    ELSE (IF Open(Head(expected_files), onDisk) = "FileNotFoundError"
          THEN <<Head(expected_files)>> ELSE <<>>)
         \o MissingFiles(Tail(expected_files), onDisk)

\* the report printed before the return
MissingReport(missing_files) ==
    IF Len(missing_files) # 0 THEN <<"Missing files:">> \o missing_files
    ELSE <<"No missing files found.">>

NoResult == [missing_files |-> <<>>, expected_files |-> <<>>]

\* the body shared by the two versions: they differ in the separator of
\* the datetime format and in the suffix
FindMissingFiles(startStr, endStr, filedir, file_prefix, sep, file_sufix, onDisk) ==
    With(<<Strptime(startStr, sep), Strptime(endStr, sep)>>, LAMBDA parsed :
        IF ~parsed[1].ok \/ ~parsed[2].ok
        THEN [raised |-> "ValueError", ret |-> NoResult, printed |-> <<>>]
        ELSE With(ExpectedFiles(parsed[1].dt, parsed[2].dt, filedir, file_prefix,
                                sep, file_sufix), LAMBDA expected_files :
             With(MissingFiles(expected_files, onDisk), LAMBDA missing_files :
                [raised |-> "none",
                 ret |-> [missing_files |-> missing_files,
                          expected_files |-> expected_files],
                 printed |-> MissingReport(missing_files)])))

\* find_missing_files_v1(startDatetime, endDatetime, filedir, file_prefix)
find_missing_files_v1(startStr, endStr, filedir, file_prefix, onDisk) ==
    FindMissingFiles(startStr, endStr, filedir, file_prefix, "_", <<>>, onDisk)

\* find_missing_files_v2(startDatetime, endDatetime, filedir, file_prefix, file_sufix)
find_missing_files_v2(startStr, endStr, filedir, file_prefix, file_sufix, onDisk) ==
    FindMissingFiles(startStr, endStr, filedir, file_prefix, "T", file_sufix, onDisk)

(***************************************************************************)
(* Inputs of find_missing_files.                                           *)
(***************************************************************************)
\* '/d/'
FileDir == <<"/", "d", "/">>
\* 'wrfchemi_d01'
FilePrefix == <<"w", "r", "f", "c", "h", "e", "m", "i", "_", "d", "0", "1">>
\* '.nc'
FileSufix == <<".", "n", "c">>

\* the first hour of the window the start and end times are drawn from
WindowStart ==
    [year |-> 2017, month |-> 12, day |-> 31, hour |-> 22, minute |-> 0, second |-> 0]

RECURSIVE HoursFrom(_, _)
HoursFrom(dt, n) == IF n = 0 THEN {} ELSE {dt} \cup HoursFrom(AddHour(dt), n - 1)

\* the whole hours of the window, across the change of day and of year
WindowHours == HoursFrom(WindowStart, NumHours)

\* start and end times: on the hour and half past the hour
WindowTimes == WindowHours \cup {[h EXCEPT !.minute = 30] : h \in WindowHours}

SepOf(v) == IF v = 1 THEN "_" ELSE "T"
SufixOf(v) == IF v = 1 THEN <<>> ELSE FileSufix

\* the path of the file of hour h as version v names it
PathOf(v, h) == FileDir \o FilePrefix \o StrftimeHour(h, SepOf(v)) \o SufixOf(v)

\* start strings: the window times in the format of version v, and one
\* string in the format of the other version
StartStrings(v) ==
    {Strftime(dt, SepOf(v)) : dt \in WindowTimes} \cup {Strftime(WindowStart, SepOf(3 - v))}

EndStrings(v) == {Strftime(dt, SepOf(v)) : dt \in WindowTimes}

(***************************************************************************)
(* Inputs of the shift functions.                                          *)
(***************************************************************************)
SrcYears == (RefYear - SrcSpan)..(RefYear + SrcSpan)
OutYears == (RefYear - OutSpan)..(RefYear + OutSpan)

\* times of day of the input timestamps: <<hour, minute, second>>
TimesOfDay == {<<1, 0, 0>>, <<23, 59, 59>>}

\* every calendar day of the source years at the times of day
SrcDatetimes ==
    {dt \in {[year |-> y, month |-> m, day |-> d,
              hour |-> t[1], minute |-> t[2], second |-> t[3]] :
                 y \in SrcYears, m \in 1..12, d \in 1..31, t \in TimesOfDay} :
        dt.day <= DaysInMonth(dt.year, dt.month)}

OtherPrefix == <<"w", "r", "f", "c", "h", "e", "m", "i", "_", "d", "0", "2", "_">>
ShortPrefix == <<"w", "r", "f", "c", "h", "e", "m", "i", "_", "d", "1", "_">>

LongPrefix == <<"w", "r", "f", "c", "h", "e", "m", "i", "_", "d", "0", "0", "1", "_">>

\* the first days of each source year, on which the inputs that are not
\* plain 'wrfchemi_d01_YYYY-MM-DD_HH:MM:SS' names are built
FewDatetimes == {x \in SrcDatetimes : x.month = 1 /\ x.day <= 3}

\* a number below 100 written without a leading zero
Unpad2(n) == IF n < 10 THEN <<Digits[n + 1]>> ELSE Pad2(n)

\* the fields of a timestamp that may be written without a leading zero
LooseFields == {"m", "d", "H", "M", "S"}

\* dt written as Y-m-d_H:M:S with the fields of 'up' not zero-padded
LooseFormat(dt, up) ==
    LET f(name, n) == IF name \in up THEN Unpad2(n) ELSE Pad2(n)
    IN  Pad4(dt.year) \o <<"-">> \o f("m", dt.month) \o <<"-">> \o f("d", dt.day)
        \o <<"_">> \o f("H", dt.hour) \o <<":">> \o f("M", dt.minute)
        \o <<":">> \o f("S", dt.second)

\* dt with the day written as a blank and one digit
BlankDayFormat(dt) ==
    Pad4(dt.year) \o <<"-">> \o Pad2(dt.month) \o <<"-", " ">> \o Unpad2(dt.day)
    \o <<"_">> \o Pad2(dt.hour) \o <<":">> \o Pad2(dt.minute) \o <<":">> \o Pad2(dt.second)

\* timestamps that are not fixed-width but that name a real date and time
LooseTails ==
    ({LooseFormat(dt, up) : dt \in FewDatetimes,
                            up \in {LooseFields, {"m"}, {"d"}, {"H"}, {"M", "S"}}}
     \cup {BlankDayFormat(dt) : dt \in FewDatetimes})
    \ {Strftime(dt, "_") : dt \in FewDatetimes}

\* strings that are no timestamp: a wrong separator, a missing or an extra
\* character, a letter, a two-digit year, nothing at all, and fields out of
\* the calendar's or the clock's range
MalformedTails ==
    UNION {LET t == Strftime(dt, "_")
           IN  {Strftime(dt, " "), SliceTo(t, 16), t \o <<"Z">>,
                <<"x">> \o SliceFrom(t, 1), SliceFrom(t, 2), <<>>,
                Strftime([dt EXCEPT !.month = 13], "_"),
                Strftime([dt EXCEPT !.month = 0], "_"),
                Strftime([dt EXCEPT !.month = 2, !.day = 30], "_"),
                Strftime([dt EXCEPT !.day = 0], "_"),
                Strftime([dt EXCEPT !.hour = 24], "_"),
                Strftime([dt EXCEPT !.minute = 60], "_"),
                Strftime([dt EXCEPT !.second = 60], "_")} : dt \in FewDatetimes}

\* filenames handed to the forward shift: the documented 'wrfchemi_d01_'
\* names for every source datetime; for the first days of each source year
\* a name of another domain and names whose prefix is too short or too
\* long; names whose timestamp is loosely written or malformed
InputFiles ==
    {OutPrefix \o Strftime(dt, "_") : dt \in SrcDatetimes}
    \cup {p \o Strftime(dt, "_") :
            p \in {OtherPrefix, ShortPrefix, LongPrefix}, dt \in FewDatetimes}
    \cup {OutPrefix \o t : t \in LooseTails \cup MalformedTails}

NoString == <<>>

ShiftIdle ==
    /\ pc = "idle"
    /\ inpNEIfile = NoString
    /\ outyear = 0
    /\ outpNEIfile = NoString
    /\ outpNEIfile_datetime = NoString
    /\ inpNEIfile_datetime = NoString

FilesIdle ==
    /\ fpc = "idle"
    /\ version = 0
    /\ startDatetime = NoString
    /\ endDatetime = NoString
    /\ disk = {}
    /\ result = NoResult

PairIdle ==
    /\ inpNEIfile2 = NoString
    /\ outpNEIfile2 = NoString

NoFiles == [dirs |-> {}, files |-> <<>>]

ScaleIdle ==
    /\ mpc = 0
    /\ namespace = {}
    /\ varname = NoString
    /\ regionMask = NoString
    /\ scalefactor = 0
    /\ BBEmissions_diri = NoString
    /\ cpc = "idle"
    /\ spc = NoString
    /\ in_diri = NoString
    /\ out_diri = NoString
    /\ mask_da = <<>>
    /\ coord_like_vars = {}
    /\ fs = NoFiles

\* a caller holds a filename and a target year and has called nothing yet
Init ==
    /\ pc = "start"
    /\ inpNEIfile \in InputFiles
    /\ outyear \in OutYears
    /\ outpNEIfile = NoString
    /\ outpNEIfile_datetime = NoString
    /\ inpNEIfile_datetime = NoString
    /\ raised = "none"
    /\ stdout = <<>>
    /\ FilesIdle
    /\ PairIdle
    /\ ScaleIdle

\* outpNEIfile = NEIfileDatetime_shift_BYweekofday(inpNEIfile, outyear)
Forward ==
    /\ pc = "start"
    /\ \E r \in {NEIfileDatetime_shift_BYweekofday(inpNEIfile, outyear)} :
           /\ raised' = r.raised
           /\ outpNEIfile' = r.ret
           /\ stdout' = stdout \o r.printed
           /\ pc' = IF r.raised = "none" THEN "shifted" ELSE "shift_failed"
    /\ UNCHANGED <<inpNEIfile, outyear, outpNEIfile_datetime, inpNEIfile_datetime>>
    /\ UNCHANGED <<fileVars, pairVars, scriptVars, scaleVars>>

\* the date-time part of the shifted filename is mapped back:
\* NEIfileDatetime_shift_BACKWARDto2017(outpNEIfile[13:], outyear)
BackwardOfForward ==
    /\ pc = "shifted"
    /\ \E arg \in {SliceFrom(outpNEIfile, PrefixLen)} :
       \E r \in {NEIfileDatetime_shift_BACKWARDto2017(arg, outyear)} :
           /\ outpNEIfile_datetime' = arg
           /\ raised' = r.raised
           /\ inpNEIfile_datetime' = r.ret
           /\ stdout' = stdout \o r.printed
           /\ pc' = IF r.raised = "none" THEN "restored" ELSE "restore_failed"
    /\ UNCHANGED <<inpNEIfile, outyear, outpNEIfile>>
    /\ UNCHANGED <<fileVars, pairVars, scriptVars, scaleVars>>

\* the inverse shift applied to the date-time part of any filename:
\* NEIfileDatetime_shift_BACKWARDto2017(inpNEIfile[13:], outyear)
Backward ==
    /\ pc = "start"
    /\ \E arg \in {SliceFrom(inpNEIfile, PrefixLen)} :
       \E r \in {NEIfileDatetime_shift_BACKWARDto2017(arg, outyear)} :
           /\ outpNEIfile_datetime' = arg
           /\ raised' = r.raised
           /\ inpNEIfile_datetime' = r.ret
           /\ stdout' = stdout \o r.printed
           /\ pc' = IF r.raised = "none" THEN "mapped_back" ELSE "map_failed"
    /\ UNCHANGED <<inpNEIfile, outyear, outpNEIfile>>
    /\ UNCHANGED <<fileVars, pairVars, scriptVars, scaleVars>>

Next == Forward \/ BackwardOfForward \/ Backward

Spec == Init /\ [][Next]_vars

\* a caller holds the arguments of find_missing_files_v1 or _v2 and a
\* directory in which some of the hourly files of the window exist
InitFiles ==
    /\ ShiftIdle
    /\ PairIdle
    /\ ScaleIdle
    /\ raised = "none"
    /\ stdout = <<>>
    /\ fpc = "start"
    /\ version \in {1, 2}
    /\ startDatetime \in StartStrings(version)
    /\ endDatetime \in EndStrings(version)
    /\ disk \in SUBSET {PathOf(version, h) : h \in WindowHours}
    /\ result = NoResult

\* result = find_missing_files_v1(startDatetime, endDatetime, filedir, file_prefix)
CallV1 ==
    /\ fpc = "start" /\ version = 1
    /\ \E r \in {find_missing_files_v1(startDatetime, endDatetime, FileDir, FilePrefix, disk)} :
           /\ raised' = r.raised
           /\ result' = r.ret
           /\ stdout' = stdout \o r.printed
           /\ fpc' = IF r.raised = "none" THEN "returned" ELSE "raised"
    /\ UNCHANGED <<version, startDatetime, endDatetime, disk>>
    /\ UNCHANGED <<shiftVars, pairVars, scriptVars, scaleVars>>

\* result = find_missing_files_v2(startDatetime, endDatetime, filedir,
\*                                file_prefix, file_sufix)
CallV2 ==
    /\ fpc = "start" /\ version = 2
    /\ \E r \in {find_missing_files_v2(startDatetime, endDatetime, FileDir, FilePrefix,
                                       FileSufix, disk)} :
           /\ raised' = r.raised
           /\ result' = r.ret
           /\ stdout' = stdout \o r.printed
           /\ fpc' = IF r.raised = "none" THEN "returned" ELSE "raised"
    /\ UNCHANGED <<version, startDatetime, endDatetime, disk>>
    /\ UNCHANGED <<shiftVars, pairVars, scriptVars, scaleVars>>

NextFiles == CallV1 \/ CallV2

SpecFiles == InitFiles /\ [][NextFiles]_vars

(***************************************************************************)
(* Two files of the reference year shifted to the same target year.        *)
(***************************************************************************)
PairYears == (RefYear - PairSpan)..(RefYear + PairSpan)

\* <<month, day>> of the days around the turn of the year and around the
\* place of the leap day, and the hours of the day
PairDays == {<<1, 1>>, <<1, 2>>, <<2, 27>>, <<2, 28>>, <<3, 1>>, <<3, 2>>,
             <<12, 30>>, <<12, 31>>}
PairHours == {0, 1, 23}

\* hourly timestamps of the reference year
HourlyTimestamps ==
    {[year |-> RefYear, month |-> md[1], day |-> md[2],
      hour |-> h, minute |-> 0, second |-> 0] : md \in PairDays, h \in PairHours}

\* a is before b
DatetimeLess(a, b) == DatetimeLeq(a, b) /\ a # b

\* a caller holds two hourly files of the reference year, the first earlier
\* than the second, and one target year
InitPair ==
    /\ pc = "start"
    /\ outyear \in PairYears
    /\ \E t1, t2 \in HourlyTimestamps :
          /\ DatetimeLess(t1, t2)
          /\ inpNEIfile = OutPrefix \o Strftime(t1, "_")
          /\ inpNEIfile2 = OutPrefix \o Strftime(t2, "_")
    /\ outpNEIfile = NoString
    /\ outpNEIfile2 = NoString
    /\ outpNEIfile_datetime = NoString
    /\ inpNEIfile_datetime = NoString
    /\ raised = "none"
    /\ stdout = <<>>
    /\ FilesIdle
    /\ ScaleIdle

\* outpNEIfile2 = NEIfileDatetime_shift_BYweekofday(inpNEIfile2, outyear),
\* after the first file has been shifted
ForwardSecond ==
    /\ pc = "shifted"
    /\ inpNEIfile2 # NoString
    /\ \E r \in {NEIfileDatetime_shift_BYweekofday(inpNEIfile2, outyear)} :
           /\ raised' = r.raised
           /\ outpNEIfile2' = r.ret
           /\ stdout' = stdout \o r.printed
           /\ pc' = IF r.raised = "none" THEN "pair_shifted" ELSE "shift_failed"
    /\ UNCHANGED <<inpNEIfile, outyear, outpNEIfile, outpNEIfile_datetime,
                   inpNEIfile_datetime, inpNEIfile2>>
    /\ UNCHANGED <<fileVars, scriptVars, scaleVars>>

NextPair == Forward \/ ForwardSecond

SpecPair == InitPair /\ [][NextPair]_vars

(***************************************************************************)
(* The scaling script ne30CONUSne30x8_scale_emissions_by_Canadaregion.     *)
(* Paths are sequences of tokens: "/" and pieces of names; consecutive     *)
(* name tokens spell one name.  Numbers are held in hundredths: a          *)
(* scalefactor of 70 is 0.7, a cell value of 200 is 2.0.                   *)
(***************************************************************************)
\* str(n) of a natural number
RECURSIVE IntStr(_)
IntStr(n) == IF n < 10 THEN <<Digits[n + 1]>> ELSE IntStr(n \div 10) \o <<Digits[(n % 10) + 1]>>

\* pathlib.Path(s), held as its string: trailing separators are dropped
RECURSIVE PathOfStr(_)
PathOfStr(s) ==
    IF Len(s) > 1 /\ s[Len(s)] = "/" THEN PathOfStr(SubSeq(s, 1, Len(s) - 1)) ELSE s

\* path / name
PathJoin(path, name) ==
    IF path[Len(path)] = "/" THEN path \o name ELSE path \o <<"/">> \o name

\* position of the last separator of a path string, 0 if it has none
LastSep(s) ==
    IF \E i \in DOMAIN s : s[i] = "/" THEN CHOOSE i \in DOMAIN s :
        s[i] = "/" /\ \A j \in (i + 1)..Len(s) : s[j] # "/"
    ELSE 0

\* os.path.dirname and os.path.basename of a path string
Dirname(s) == IF LastSep(s) <= 1 THEN SubSeq(s, 1, LastSep(s)) ELSE SubSeq(s, 1, LastSep(s) - 1)
Basename(s) == SubSeq(s, LastSep(s) + 1, Len(s))

\* f"qfed.emis_{spc}_hires_mol_2020-2024_c20250115.nc"
QfedName(species) == <<"qfed.emis_">> \o species \o <<"_hires_mol_2020-2024_c20250115.nc">>

\* pct_str: f"{int(round(scalefactor * 100))}pct"
PctStr(sf) == IntStr(sf) \o <<"pct">>

\* Out_BBEmissions_diri:
\* Path(BBEmissions_diri) / f"ne0conus30x8_{regionMask}Masked_{pct_str}"
OutBBEmissionsDiri(bbdir, region, sf) ==
    PathJoin(PathOfStr(bbdir), <<"ne0conus30x8_">> \o region \o <<"Masked_">> \o PctStr(sf))

\* index tuples of a variable with the dimensions dims
DimSize(d) == IF d = "time" THEN NTime ELSE NCol

Indices(dims) ==
    IF Len(dims) = 2
    THEN {<<i, j>> : i \in 1..DimSize(dims[1]), j \in 1..DimSize(dims[2])}
    ELSE {<<i>> : i \in 1..DimSize(dims[1])}

\* "d" in da.dims
HasDim(da, d) == \E k \in DOMAIN da.dims : da.dims[k] = d

\* the ncol coordinate of the cell ix of da
NcolOf(da, ix) == ix[CHOOSE k \in DOMAIN da.dims : da.dims[k] = "ncol"]

\* attributes of a variable that no scaling has touched
NoAttrs == [region_scaling_applied |-> "", region_mask_name |-> <<>>,
            region_scale_factor |-> -1]

\* ds[name] = da
SetVar(ds, name, da) ==
    [v \in DOMAIN ds \cup {name} |-> IF v = name THEN da ELSE ds[v]]

\* ds.drop_vars(name)
DropVar(ds, name) == [v \in DOMAIN ds \ {name} |-> ds[v]]

\* da * scalefactor
Times(da, sf) == [da EXCEPT !.data = [ix \in DOMAIN da.data |-> (da.data[ix] * sf) \div 100]]

\* ~mask_da
Invert(mask) == [c \in DOMAIN mask |-> ~mask[c]]

\* a where that keeps the values where the condition is False
WhereNot(da, cond, other) ==
    [da EXCEPT !.data = [ix \in DOMAIN da.data |->
        IF cond[NcolOf(da, ix)] THEN other.data[ix] ELSE da.data[ix]]]

\* da.where(cond, other=other): da where cond is True, other elsewhere; cond
\* has the dimension ncol and is broadcast along the others
Where(da, cond, other) ==
    [da EXCEPT !.data = [ix \in DOMAIN da.data |->
        IF cond[NcolOf(da, ix)] THEN da.data[ix] ELSE other.data[ix]]]

\* np.where(lon >= 180, lon - 360, lon) as a variable on ncol
AdjustedLons(lon) ==
    [dims |-> <<"ncol">>,
     data |-> [ix \in DOMAIN lon.data |->
                  IF lon.data[ix] >= 18000 THEN lon.data[ix] - 36000 ELSE lon.data[ix]],
     attrs |-> NoAttrs]

\* one pass of the scaling loop over the data variables (lines 206-224)
ScaleVars(ds, clv, mask, sf, region) ==
    [var \in DOMAIN ds |->
        IF var \in clv THEN ds[var]
        ELSE IF ~HasDim(ds[var], "ncol") THEN ds[var]
        ELSE [Where(ds[var], Invert(mask), Times(ds[var], sf)) EXCEPT
                 !.attrs = [region_scaling_applied |-> "True",
                            region_mask_name |-> region,
                            region_scale_factor |-> sf]]]

\* the dataset that lines 192-228 make of the opened dataset
ScaledDataset(ds, clv, mask, sf, region) ==
    LET withLon == IF "lon" \in DOMAIN ds
                   THEN SetVar(ds, "Adjustedlons", AdjustedLons(ds["lon"]))
                   ELSE ds
        scaled == ScaleVars(withLon, clv, mask, sf, region)
    IN  IF "Adjustedlons" \in DOMAIN scaled THEN DropVar(scaled, "Adjustedlons") ELSE scaled

\* fsys with the netCDF file ds written at path
WriteFile(fsys, path, ds) ==
    [fsys EXCEPT !.files = [q \in DOMAIN fsys.files \cup {path} |->
                               IF q = path THEN ds ELSE fsys.files[q]]]

\* os.makedirs(path, exist_ok=True) below an existing directory
MakeDirs(fsys, path) == [fsys EXCEPT !.dirs = fsys.dirs \cup {PathOfStr(path)}]

\* scale_bb_emissions_by_mask(species, indir, outdir, mask, sf, region, clv)
\* on the file system fsys: the file system it leaves and the lines it
\* prints; every exception is caught and printed (lines 179, 244-245)
scale_bb_emissions_by_mask(species, indir, outdir, mask, sf, region, clv, fsys) ==
    LET spc_fileINpath == indir \o QfedName(species)
        spc_fileOUTpath == outdir \o QfedName(species)
        made == MakeDirs(fsys, outdir)
    IN  IF spc_fileINpath \notin DOMAIN fsys.files
        THEN [fs |-> fsys,
              printed |-> <<<<"Error encountered for ">> \o species
                            \o <<": ", "FileNotFoundError">>>>]
        ELSE IF Dirname(spc_fileOUTpath) \notin made.dirs
        THEN [fs |-> made,
              printed |-> <<<<"Error encountered for ">> \o species
                            \o <<": ", "PermissionError">>>>]
        ELSE [fs |-> WriteFile(made, spc_fileOUTpath,
                               ScaledDataset(fsys.files[spc_fileINpath], clv, mask,
                                             sf, region)),
              printed |-> <<<<"Saved scaled emissions: ">> \o spc_fileOUTpath,
                            <<"************************************************************************">>>>]

(***************************************************************************)
(* Inputs of the scaling function.                                         *)
(***************************************************************************)
Species == {<<"CO">>, <<"NO">>}
RegionMasks == {<<"mask_Quebec">>, <<"mask_Ontario">>}
ScaleFactors == {0, 70, 130}
CellValues == {100, 200}

\* BBEmissions_diri as the script's comment writes it, and without the
\* separator at its end
BBDirs == {<<"path", "/", "to", "/", "biomass_burning_emissions", "/">>,
           <<"path", "/", "to", "/", "biomass_burning_emissions">>}

\* coord_like_vars of line 122
CoordLikeVars == {"time", "ncol", "lat", "lon", "area", "date", "altitude", "rrfac"}

\* a variable of an emission file
Variable(dims, value(_)) ==
    [dims |-> dims, data |-> [ix \in Indices(dims) |-> value(ix)], attrs |-> NoAttrs]

\* an emission file: the emissions bb(time, ncol), the cell areas area(ncol),
\* date(time) and datesec(time), and lon(ncol) in some files
EmissionFile(bb, hasLon) ==
    LET ds == [v \in {"bb", "area", "date", "datesec"} |->
                 IF v = "bb" THEN Variable(<<"time", "ncol">>, LAMBDA ix : bb[ix])
                 ELSE IF v = "area" THEN Variable(<<"ncol">>, LAMBDA ix : 100 * ix[1] + 200)
                 ELSE IF v = "date" THEN Variable(<<"time">>, LAMBDA ix : 2020 + ix[1])
                 ELSE Variable(<<"time">>, LAMBDA ix : 0)]
    IN  IF hasLon
        THEN SetVar(ds, "lon", Variable(<<"ncol">>,
                                        LAMBDA ix : IF ix[1] % 2 = 1 THEN 1000 ELSE 25000))
        ELSE ds

InputDatasets ==
    {EmissionFile(bb, hasLon) : bb \in [Indices(<<"time", "ncol">>) -> CellValues],
                                hasLon \in BOOLEAN}

\* the directory BBEmissions_diri with the emission file of every species
InputFileSystem(bbdir, ds) ==
    [dirs |-> {PathOfStr(bbdir)},
     files |-> [q \in {PathJoin(PathOfStr(bbdir), QfedName(sp)) : sp \in Species} |-> ds]]

\* a caller holds the arguments of the execution step (lines 252-261):
\* in_diri = BBEmissions_diri and out_diri = Out_BBEmissions_diri
InitScale ==
    /\ ShiftIdle
    /\ FilesIdle
    /\ PairIdle
    /\ raised = "none"
    /\ stdout = <<>>
    /\ mpc = 0
    /\ namespace = {}
    /\ varname = NoString
    /\ BBEmissions_diri \in BBDirs
    /\ regionMask \in RegionMasks
    /\ scalefactor \in ScaleFactors
    /\ cpc = "start"
    /\ spc \in Species
    /\ in_diri = BBEmissions_diri
    /\ out_diri = OutBBEmissionsDiri(BBEmissions_diri, regionMask, scalefactor)
    /\ mask_da \in [1..NCol -> BOOLEAN]
    /\ coord_like_vars \in {CoordLikeVars, {}}
    /\ \E ds \in InputDatasets : fs = InputFileSystem(BBEmissions_diri, ds)

\* scale_bb_emissions_by_mask(spc, in_diri, out_diri, mask_da, scalefactor,
\*                            regionMask, coord_like_vars)
CallScale ==
    /\ cpc = "start"
    /\ \E r \in {scale_bb_emissions_by_mask(spc, in_diri, out_diri, mask_da,
                                            scalefactor, regionMask, coord_like_vars, fs)} :
           /\ fs' = r.fs
           /\ stdout' = stdout \o r.printed
    /\ cpc' = "returned"
    /\ UNCHANGED <<raised, regionMask, scalefactor, spc, in_diri, out_diri, mask_da,
                   coord_like_vars>>
    /\ UNCHANGED <<shiftVars, fileVars, pairVars, scriptVars>>

NextScale == CallScale

SpecScale == InitScale /\ [][NextScale]_vars

(***************************************************************************)
(* The module-level statements of the scaling script, run in file order    *)
(* as the usage instructions describe: BBEmissions_diri and MaskFile are   *)
(* set at the top and the execution step is uncommented.                   *)
(***************************************************************************)
\* the names a statement reads and the names it binds, by the line where
\* the statement starts
Statement(line, reads, writes) == [line |-> line, reads |-> reads, writes |-> writes]

Statements ==
    <<Statement(53, {}, {"varname"}),
      Statement(55, {}, {"regionMask"}),
      Statement(56, {}, {"scalefactor"}),
      Statement(59, {}, {"BBEmissions_diri"}),
      Statement(61, {}, {"MaskFile"}),
      Statement(65, {}, {"os", "re", "glob", "fnmatch", "Path", "pd", "gpd", "wkt",
                         "Point", "Polygon", "xr", "np"}),
      Statement(81, {"Path", "Out_BBEmissions_diri"}, {"out_diri"}),
      Statement(83, {"out_diri"}, {}),
      Statement(84, {"out_diri"}, {}),
      Statement(87, {"os", "BBEmissions_diri"}, {"pattern"}),
      Statement(91, {"glob", "pattern"}, {"files"}),
      Statement(92, {"re"}, {"regex"}),
      Statement(95, {"files", "regex", "os"}, {"spc_list"}),
      Statement(102, IF varname = <<"all">> THEN {"varname", "spc_list", "files"}
                     ELSE {"varname", "BBEmissions_diri"},
                {"scalespc_list", "scalefiles"}),
      Statement(112, {"xr", "MaskFile"}, {"mask_ds"}),
      Statement(114, {"mask_ds", "regionMask"}, {"mask_da_loaded"}),
      Statement(118, {"mask_da_loaded"}, {"mask_da_loaded"}),
      Statement(122, {}, {"coord_like_vars"}),
      Statement(126, {"scalefactor"}, {"pct_value"}),
      Statement(127, {"pct_value"}, {"pct_str"}),
      Statement(129, {"Path", "BBEmissions_diri"}, {"BASE_OUT"}),
      Statement(131, {"BASE_OUT", "regionMask", "pct_str"}, {"Out_BBEmissions_diri"}),
      Statement(132, {"Out_BBEmissions_diri"}, {}),
      Statement(136, {}, {"scale_bb_emissions_by_mask"}),
      Statement(252, {"scalespc_list", "scale_bb_emissions_by_mask", "BBEmissions_diri",
                      "Out_BBEmissions_diri", "mask_da_loaded", "scalefactor",
                      "regionMask", "coord_like_vars"}, {"spc"})>>

\* the elements of a set in some order
RECURSIVE SeqOfSet(_)
SeqOfSet(S) ==
    IF S = {} THEN <<>>
    ELSE LET x == CHOOSE y \in S : TRUE IN <<x>> \o SeqOfSet(S \ {x})

\* spc_list: the species of the files that glob finds in BBEmissions_diri
SpcList(fsys) ==
    SeqOfSet({sp \in Species : PathJoin(BBEmissions_diri, QfedName(sp)) \in DOMAIN fsys.files})

\* scalespc_list (lines 102-108)
ScaleSpcList(fsys) == IF varname = <<"all">> THEN SpcList(fsys) ELSE <<varname>>

\* the execution step: the function is called for each species of the list
RECURSIVE ExecutionStep(_, _)
ExecutionStep(list, fsys) ==
    IF list = <<>> THEN [fs |-> fsys, printed |-> <<>>]
    ELSE LET r == scale_bb_emissions_by_mask(
                      Head(list), BBEmissions_diri,
                      OutBBEmissionsDiri(BBEmissions_diri, regionMask, scalefactor),
                      mask_da, scalefactor, regionMask, coord_like_vars, fsys)
             rest == ExecutionStep(Tail(list), r.fs)
         IN  [fs |-> rest.fs, printed |-> r.printed \o rest.printed]

\* what the statement at a line does to the file system and what it prints
StatementEffect(line, fsys) ==
    LET outdir == OutBBEmissionsDiri(BBEmissions_diri, regionMask, scalefactor)
    IN  IF line \in {83, 132} THEN [fs |-> MakeDirs(fsys, outdir), printed |-> <<>>]
        ELSE IF line = 84
        THEN [fs |-> fsys, printed |-> <<<<"Output directory ready: ">> \o outdir>>]
        ELSE IF line = 252 THEN ExecutionStep(ScaleSpcList(fsys), fsys)
        ELSE [fs |-> fsys, printed |-> <<>>]

\* the settings a user may write at the top of the script
VarNames == Species \cup {<<"all">>}

\* the interpreter is about to run the first statement of the script
InitScript ==
    /\ ShiftIdle
    /\ FilesIdle
    /\ PairIdle
    /\ raised = "none"
    /\ stdout = <<>>
    /\ mpc = 1
    /\ namespace = {}
    /\ varname \in VarNames
    /\ regionMask \in RegionMasks
    /\ scalefactor \in ScaleFactors
    /\ BBEmissions_diri \in BBDirs
    /\ cpc = "idle"
    /\ spc = NoString
    /\ in_diri = NoString
    /\ out_diri = NoString
    /\ mask_da \in [1..NCol -> BOOLEAN]
    /\ coord_like_vars = CoordLikeVars
    /\ fs = InputFileSystem(BBEmissions_diri,
                            EmissionFile([ix \in Indices(<<"time", "ncol">>) |-> 100], TRUE))

\* the next statement runs: every name it reads is bound
ExecuteStatement ==
    /\ mpc \in DOMAIN Statements
    /\ raised = "none"
    /\ Statements[mpc].reads \subseteq namespace
    /\ namespace' = namespace \cup Statements[mpc].writes
    /\ \E r \in {StatementEffect(Statements[mpc].line, fs)} :
           /\ fs' = r.fs
           /\ stdout' = stdout \o r.printed
    /\ mpc' = mpc + 1
    /\ UNCHANGED <<raised, varname, BBEmissions_diri, regionMask, scalefactor, cpc, spc,
                   in_diri, out_diri, mask_da, coord_like_vars>>
    /\ UNCHANGED <<shiftVars, fileVars, pairVars>>

\* the next statement reads a name that no statement has bound: NameError
\* ends the run
RaiseNameError ==
    /\ mpc \in DOMAIN Statements
    /\ raised = "none"
    /\ ~(Statements[mpc].reads \subseteq namespace)
    /\ raised' = "NameError"
    /\ UNCHANGED <<stdout, mpc, namespace, varname, BBEmissions_diri>>
    /\ UNCHANGED <<shiftVars, fileVars, pairVars, scaleVars>>

NextScript == ExecuteStatement \/ RaiseNameError

SpecScript == InitScript /\ [][NextScript]_vars

(***************************************************************************)
(* Properties of the shift functions.                                      *)
(***************************************************************************)
\* the timestamp embedded in the input filename, the shifted filename, the
\* argument of the inverse shift and the value it returned
SrcParse == Strptime(SliceFrom(inpNEIfile, PrefixLen), "_")
OutParse == Strptime(SliceFrom(outpNEIfile, PrefixLen), "_")
BackArgParse == Strptime(outpNEIfile_datetime, "_")
BackParse == Strptime(inpNEIfile_datetime, "_")

\* a 13-character prefix followed by a YYYY-MM-DD_HH:MM:SS timestamp
ValidInput == Len(inpNEIfile) = PrefixLen + 19 /\ SrcParse.ok

ForwardReturned == pc \in {"shifted", "restored", "restore_failed"}
BackwardReturned == pc \in {"mapped_back", "restored"}

SameTimeOfDay(a, b) == a.hour = b.hour /\ a.minute = b.minute /\ a.second = b.second

\* C1: for every valid input filename and every target year (later than,
\* equal to or earlier than the source year) the forward shift returns a
\* filename whose timestamp falls on the weekday of the source timestamp.
C1_ForwardKeepsWeekday ==
    /\ (pc = "shift_failed") => ~ValidInput
    /\ ForwardReturned =>
          \A src \in {SrcParse}, out \in {OutParse} :
              (src.ok /\ Len(inpNEIfile) = PrefixLen + 19) =>
                  /\ out.ok
                  /\ Weekday(out.dt) = Weekday(src.dt)

\* a shift to an earlier year that had to trim days
C1_Witness ==
    /\ pc = "shifted"
    /\ \E src \in {SrcParse}, out \in {OutParse} :
          /\ src.ok /\ out.ok
          /\ outyear < src.dt.year
          /\ out.dt.day # src.dt.day
          /\ Weekday(out.dt) = Weekday(src.dt)

\* C2: for every valid adjusted timestamp string, of a year before, equal
\* to or after the reference year, the inverse shift returns a timestamp on
\* the weekday of its argument.
C2_BackwardKeepsWeekday ==
    /\ (pc \in {"map_failed", "restore_failed"}) => ~BackArgParse.ok
    /\ BackwardReturned =>
          \A arg \in {BackArgParse}, back \in {BackParse} :
              /\ arg.ok /\ back.ok
              /\ Weekday(back.dt) = Weekday(arg.dt)

\* an argument of a year before the reference year, moved by some days
C2_Witness ==
    /\ pc = "mapped_back"
    /\ \E arg \in {BackArgParse}, back \in {BackParse} :
          /\ arg.ok /\ back.ok
          /\ arg.dt.year < RefYear
          /\ back.dt.day # arg.dt.day
          /\ Weekday(back.dt) = Weekday(arg.dt)

\* C3: the forward shift followed by the inverse shift of the shifted
\* timestamp yields a timestamp on the weekday of the source timestamp.
C3_RoundTripKeepsWeekday ==
    /\ pc # "restore_failed"
    /\ (pc = "restored") =>
          \A src \in {SrcParse}, back \in {BackParse} :
              /\ src.ok
              /\ back.ok
              /\ Weekday(back.dt) = Weekday(src.dt)

\* a round trip through another year that ends on another date of the
\* same weekday
C3_Witness ==
    /\ pc = "restored"
    /\ inpNEIfile_datetime # SliceFrom(inpNEIfile, PrefixLen)
    /\ \E src \in {SrcParse}, back \in {BackParse} :
          /\ src.ok /\ back.ok
          /\ outyear # src.dt.year
          /\ Weekday(back.dt) = Weekday(src.dt)

\* the source date in the target year: the same month and day, February 28
\* for a February 29 that the target year does not have
NaiveShift(src, oy) ==
    [src EXCEPT !.year = oy,
                !.day = IF src.month = 2 /\ src.day = 29 /\ ~IsLeap(oy) THEN 28 ELSE src.day]

\* C4: the output is the naive year shift moved back by d whole days, d in
\* 0..6 the floored remainder modulo 7 of the signed day difference; its
\* year is the target year, or the year before it only when the naive shift
\* falls on January 1 to 6, and never a later year.
C4_ForwardLandsInTargetYear ==
    (pc = "shifted") =>
        \A src \in {SrcParse.dt}, out \in {OutParse.dt} :
        \A naive \in {NaiveShift(src, outyear)} :
        \A d \in {ToOrdinal(naive) - ToOrdinal(out)} :
            /\ d \in 0..6
            /\ d = (ToOrdinal(naive) - ToOrdinal(src)) % 7
            /\ SameTimeOfDay(out, src)
            /\ out.year <= outyear
            /\ out.year >= outyear - 1
            /\ out.year = outyear - 1 => (naive.month = 1 /\ naive.day <= 6)

\* a shift to an earlier year whose trim crosses into the year before it
C4_Witness ==
    /\ pc = "shifted"
    /\ \E src \in {SrcParse.dt}, out \in {OutParse.dt} :
          /\ outyear < src.year
          /\ ToOrdinal(NaiveShift(src, outyear)) - ToOrdinal(out) = 6
          /\ out.year = outyear - 1

\* 'wrfchemi_d01_2017-08-01_01:00:00'
ExampleInput ==
    OutPrefix \o <<"2", "0", "1", "7", "-", "0", "8", "-", "0", "1", "_",
                   "0", "1", ":", "0", "0", ":", "0", "0">>

\* 'wrfchemi_d01_2020-'
ExampleOutputStart ==
    OutPrefix \o <<"2", "0", "2", "0", "-">>

\* C5: NEIfileDatetime_shift_BYweekofday('wrfchemi_d01_2017-08-01_01:00:00',
\* 2020) returns a filename that begins with 'wrfchemi_d01_2020-' and whose
\* date is a Tuesday.
C5_Example2017To2020 ==
    (outyear = 2020 /\ pc # "start" /\ pc # "mapped_back" /\ inpNEIfile = ExampleInput) =>
        /\ pc \in {"shifted", "restored"}
        /\ SliceTo(outpNEIfile, 18) = ExampleOutputStart
        /\ OutParse.ok
        /\ StrftimeA(OutParse.dt) = "Tuesday"
        /\ stdout[1] = MatchedLine("Tuesday", "Tuesday")

C5_Witness ==
    /\ outyear = 2020 /\ pc = "shifted" /\ inpNEIfile = ExampleInput
    /\ StrftimeA(SrcParse.dt) = "Tuesday"
    /\ OutParse.dt.year = 2020

\* C6: the inverse shift returns a timestamp of calendar year 2017 for every
\* valid adjusted timestamp.
C6_BackwardYearIs2017 ==
    BackwardReturned => BackParse.dt.year = RefYear

\* C7: for every timestamp of 2017 and every target year, the inverse shift
\* of the forward-shifted timestamp is the original timestamp.
C7_BackwardRecoversOriginal ==
    (pc = "restored" /\ SrcParse.dt.year = RefYear) =>
        inpNEIfile_datetime = SliceFrom(inpNEIfile, PrefixLen)

\* a February 29 source and a target year without one
LeapDayCase(src) ==
    /\ src.ok /\ Len(inpNEIfile) = PrefixLen + 19
    /\ src.dt.month = 2 /\ src.dt.day = 29
    /\ ~IsLeap(outyear)

Feb28(oy) == [year |-> oy, month |-> 2, day |-> 28, hour |-> 0, minute |-> 0, second |-> 0]

\* C8: a February 29 source shifted to a non-leap target year raises no
\* error and returns the date 0 to 6 days before February 28 of the target
\* year that has the weekday of the source, the days counted from the
\* difference between February 28 of the target year and the source.
C8_LeapDayClamped ==
    /\ (pc = "shift_failed") => ~LeapDayCase(SrcParse)
    /\ (pc = "shifted") =>
          \A src \in {SrcParse}, out \in {OutParse} :
              LeapDayCase(src) =>
                  /\ raised = "none"
                  /\ out.ok
                  /\ ToOrdinal(Feb28(outyear)) - ToOrdinal(out.dt) \in 0..6
                  /\ ToOrdinal(Feb28(outyear)) - ToOrdinal(out.dt)
                        = (ToOrdinal(Feb28(outyear)) - ToOrdinal(src.dt)) % 7
                  /\ Weekday(out.dt) = Weekday(src.dt)
                  /\ SameTimeOfDay(out.dt, src.dt)

\* February 29 shifted to a later year that has no February 29
C8_Witness ==
    /\ pc = "shifted"
    /\ \E src \in {SrcParse}, out \in {OutParse} :
          /\ LeapDayCase(src)
          /\ outyear > src.dt.year
          /\ out.dt.month = 2 /\ out.dt.day <= 28

\* C9: the returned filename is the 13-character prefix of the input
\* followed by the adjusted timestamp in the pattern YYYY-MM-DD_HH:MM:SS.
C9_PrefixKept ==
    (pc = "shifted") =>
        /\ Len(outpNEIfile) = PrefixLen + 19
        /\ SliceTo(outpNEIfile, PrefixLen) = SliceTo(inpNEIfile, PrefixLen)
        /\ \A out \in {OutParse} :
              out.ok /\ Strftime(out.dt, "_") = SliceFrom(outpNEIfile, PrefixLen)

(***************************************************************************)
(* Properties of find_missing_files.                                       *)
(***************************************************************************)
\* the indices of the expected paths that do not exist
AbsentIndices(expected_files) == {j \in DOMAIN expected_files : expected_files[j] \notin disk}

HourOf(dt) == [dt EXCEPT !.minute = 0, !.second = 0]

\* the datetimes the two arguments of the call stand for
StartOfCall == Strptime(startDatetime, SepOf(version)).dt
EndOfCall == Strptime(endDatetime, SepOf(version)).dt

\* C11: 'expected_files' holds, in chronological order and without
\* duplicates, the file of every whole hour H with start <= H <= end and no
\* file of an hour outside hour(start)..hour(end); it is empty when start
\* is after end.
C11_ExpectedFilesCoverRange ==
    (fpc = "returned") =>
        \A e \in {result.expected_files}, st \in {StartOfCall}, en \in {EndOfCall} :
            /\ \A h \in WindowHours :
                  (DatetimeLeq(st, h) /\ DatetimeLeq(h, en)) =>
                      \E i \in DOMAIN e : e[i] = PathOf(version, h)
            /\ \A i \in DOMAIN e :
                  \E h \in WindowHours :
                      /\ e[i] = PathOf(version, h)
                      /\ DatetimeLeq(HourOf(st), h) /\ DatetimeLeq(h, HourOf(en))
            /\ \A i, j \in DOMAIN e :
                  i < j => \E h1, h2 \in WindowHours :
                      /\ e[i] = PathOf(version, h1) /\ e[j] = PathOf(version, h2)
                      /\ DatetimeLeq(h1, h2) /\ h1 # h2
            /\ ~DatetimeLeq(st, en) => e = <<>>

\* s has the shape YYYY-MM-DD_HH:MM:SS: 19 characters, digits and the five
\* separators each at its fixed place
FixedWidthTimestamp(s) ==
    /\ Len(s) = 19
    /\ \A i \in 1..19 :
          IF i \in {5, 8} THEN s[i] = "-"
          ELSE IF i = 11 THEN s[i] = "_"
          ELSE IF i \in {14, 17} THEN s[i] = ":"
          ELSE IsDigit(s[i])

\* the part of the filename the forward shift parses: filename[13:]
ForwardArg == SliceFrom(inpNEIfile, PrefixLen)

ForwardCalled == pc \in {"shifted", "shift_failed"}
BackwardCalled == pc \in {"mapped_back", "map_failed"}

\* the forward shift raised the parsing error, returned nothing and printed
\* no weekday line
ForwardFailed ==
    pc = "shift_failed" /\ raised = "ValueError" /\ outpNEIfile = NoString /\ stdout = <<>>

\* the same for the inverse shift
BackwardFailed ==
    pc = "map_failed" /\ raised = "ValueError" /\ inpNEIfile_datetime = NoString
    /\ stdout = <<>>

\* C15 as stated: an input whose characters from index 13 on (the whole
\* argument, for the inverse shift) are not of the fixed-width shape
\* YYYY-MM-DD_HH:MM:SS makes the shift raise the parsing error, return no
\* filename and print no weekday line.
C15_FormatErrorsFail ==
    /\ (ForwardCalled /\ ~FixedWidthTimestamp(ForwardArg)) => ForwardFailed
    /\ (BackwardCalled /\ ~FixedWidthTimestamp(outpNEIfile_datetime)) => BackwardFailed

\* the parsed parts of the inputs that name no date and time: the malformed
\* strings and what is left of a timestamp behind a prefix of 12 or 14
\* characters
RejectedTails ==
    MalformedTails
    \cup {SliceFrom(p \o Strftime(dt, "_"), PrefixLen) :
            p \in {ShortPrefix, LongPrefix}, dt \in FewDatetimes}

\* C15 amended: the shifts fail exactly on the strings that name no date and
\* time (malformed, or cut at the wrong place by a prefix that is not 13
\* characters long), and then raise ValueError, return nothing and print
\* nothing; a timestamp with fields of one digit or a blank-padded day is
\* not of the fixed-width shape but is accepted and shifted.
C15_StrptimeErrorsFail ==
    /\ ForwardCalled =>
          \A t \in {ForwardArg} :
              /\ (pc = "shift_failed") <=> (t \in RejectedTails)
              /\ (pc = "shift_failed") => ForwardFailed
              /\ (t \in LooseTails) =>
                    /\ ~FixedWidthTimestamp(t)
                    /\ raised = "none" /\ Len(stdout) = 1
                    /\ FixedWidthTimestamp(SliceFrom(outpNEIfile, PrefixLen))
    /\ BackwardCalled =>
          \A t \in {outpNEIfile_datetime} :
              /\ (pc = "map_failed") <=> (t \in RejectedTails)
              /\ (pc = "map_failed") => BackwardFailed
              /\ (t \in LooseTails) =>
                    /\ raised = "none" /\ Len(stdout) = 1
                    /\ FixedWidthTimestamp(inpNEIfile_datetime)

\* the forward shift has rejected a timestamp behind a prefix of the wrong
\* length
C15_Witness ==
    /\ ForwardFailed
    /\ Len(inpNEIfile) # PrefixLen + 19
    /\ \E p \in {ShortPrefix, LongPrefix}, dt \in FewDatetimes :
          inpNEIfile = p \o Strftime(dt, "_")

\* the timestamps of the second file and of its shifted name
SrcParse2 == Strptime(SliceFrom(inpNEIfile2, PrefixLen), "_")
OutParse2 == Strptime(SliceFrom(outpNEIfile2, PrefixLen), "_")

\* C16: for hourly timestamps t1 < t2 of the reference year and one target
\* year, the forward shift of t1 is before the forward shift of t2: the two
\* files never get the same target name and keep their order.
C16_ForwardKeepsOrder ==
    (pc = "pair_shifted") =>
        \A s1 \in {SrcParse}, s2 \in {SrcParse2}, o1 \in {OutParse}, o2 \in {OutParse2} :
            (/\ s1.ok /\ s2.ok
             /\ s1.dt.year = RefYear /\ s2.dt.year = RefYear
             /\ DatetimeLess(s1.dt, s2.dt))
            => /\ o1.ok /\ o2.ok
               /\ DatetimeLess(o1.dt, o2.dt)
               /\ outpNEIfile # outpNEIfile2

\* the last hour of February 28 and the first hour of March 1 have been
\* shifted to a leap year by different numbers of days
C16_Witness ==
    /\ pc = "pair_shifted"
    /\ IsLeap(outyear)
    /\ SrcParse.dt.month = 2 /\ SrcParse.dt.day = 28 /\ SrcParse.dt.hour = 23
    /\ SrcParse2.dt.month = 3 /\ SrcParse2.dt.day = 1 /\ SrcParse2.dt.hour = 0
    /\ ToOrdinal(OutParse.dt) - ToOrdinal(SrcParse.dt)
       # ToOrdinal(OutParse2.dt) - ToOrdinal(SrcParse2.dt)

(***************************************************************************)
(* Properties of the scaling function.                                     *)
(***************************************************************************)
\* the emission files that were in BBEmissions_diri before the call, the
\* file of the species, and the files the call has written
InputPaths == {PathJoin(PathOfStr(BBEmissions_diri), QfedName(sp)) : sp \in Species}
SpeciesInput == fs.files[PathJoin(PathOfStr(BBEmissions_diri), QfedName(spc))]
WrittenPaths == DOMAIN fs.files \ InputPaths

\* C12: in the written file every data variable with the dimension ncol
\* that is not in coord_like_vars holds value * scalefactor where the mask
\* is True and the original value where it is False; every other variable
\* holds its original values; there is no variable Adjustedlons.
C12_OnlyMaskedCellsScaled ==
    (cpc = "returned") =>
        \A q \in WrittenPaths : \A orig \in {SpeciesInput}, out \in {fs.files[q]} :
            /\ "Adjustedlons" \notin DOMAIN out
            /\ DOMAIN out = DOMAIN orig
            /\ \A v \in DOMAIN orig :
                  /\ out[v].dims = orig[v].dims
                  /\ IF HasDim(orig[v], "ncol") /\ v \notin coord_like_vars
                     THEN \A ix \in DOMAIN orig[v].data :
                              out[v].data[ix] =
                                  IF mask_da[NcolOf(orig[v], ix)]
                                  THEN (orig[v].data[ix] * scalefactor) \div 100
                                  ELSE orig[v].data[ix]
                     ELSE out[v].data = orig[v].data

\* a file with lon has been scaled by 0.7 under a mask that is True for
\* some cells and False for others, with the script's coord_like_vars
C12_Witness ==
    /\ cpc = "returned"
    /\ WrittenPaths # {}
    /\ "lon" \in DOMAIN SpeciesInput
    /\ scalefactor = 70
    /\ coord_like_vars = CoordLikeVars
    /\ \E c, d \in DOMAIN mask_da : mask_da[c] /\ ~mask_da[d]
    /\ \E q \in WrittenPaths : fs.files[q]["bb"].data # SpeciesInput["bb"].data

\* C13: called with out_diri = Out_BBEmissions_diri, the function writes
\* the file of species spc under the name
\* qfed.emis_<spc>_hires_mol_2020-2024_c20250115.nc in the directory
\* out_diri, not in its parent directory.
C13_WrittenInOutputSubdirectory ==
    (cpc = "returned" /\ WrittenPaths # {}) =>
        /\ out_diri = OutBBEmissionsDiri(BBEmissions_diri, regionMask, scalefactor)
        /\ \A q \in WrittenPaths :
              /\ Dirname(q) = out_diri
              /\ Basename(q) = QfedName(spc)
              /\ Dirname(q) # PathOfStr(BBEmissions_diri)

\* C14: run in file order as the usage instructions describe, the script
\* reads no module-level name before a statement has assigned it (no
\* NameError ends the run before the execution step).
C14_NoNameReadBeforeAssigned ==
    (mpc # 0) => raised # "NameError"
====
